---------------------------- MODULE Spec2Model ----------------------------
(***************************************************************************)
(* Model of the mobile-number extraction script                            *)
(*   is_valid_egyptian_mobile(phone)   -- the validator                    *)
(*   extract_mobile_numbers(json_file) -- the scan over data['companies']  *)
(*                                                                         *)
(* A Python str is a sequence of one-character strings.  The character     *)
(* "U0663" stands for ARABIC-INDIC DIGIT THREE: a character that is not    *)
(* one of 0-9 but that the pattern \d of a str regular expression matches. *)
(* A JSON object is a record with a field "keys" holding the keys that are *)
(* present; the value fields of absent keys are fillers never read.        *)
(***************************************************************************)
EXTENDS Integers, Sequences, FiniteSets

VARIABLES
    data,             \* the value json.load returned
    pc,               \* position in the function being run
    i,                \* 1-based index of `company` in data['companies']
    company_name,     \* local company_name of the current iteration
    phone_numbers,    \* matches of the current company still to be visited
    valid_numbers,    \* local list valid_numbers
    invalid_numbers,  \* local list invalid_numbers
    result,           \* the value extract_mobile_numbers returned
    phone,            \* argument of a direct call of the validator
    verdict           \* value that call returned

vars == <<data, pc, i, company_name, phone_numbers, valid_numbers,
          invalid_numbers, result, phone, verdict>>

----------------------------------------------------------------------------
(* Bounds of the model and constants of the program                        *)

MaxCompanies == 2   \* records in a collection
MaxTokens == 6      \* pieces a generated phone string is assembled from
MaxLen == 12        \* length of a string handed to the validator directly

PhoneLen == 11      \* the 11 of `len(phone) != 11` and of \d{11}

----------------------------------------------------------------------------
(* Characters and strings                                                  *)

AsciiDigits == {"0", "1", "2", "3", "4", "5", "6", "7", "8", "9"}

\* \d on a str pattern: every Unicode decimal digit, 0-9 among them
IsDigit(c) == c \in AsciiDigits \cup {"U0663"}

\* re.sub(r'[^\d]', '', phone)
StripNonDigits(s) == SelectSeq(s, IsDigit)

\* str.startswith
StartsWith(s, prefix) ==
    /\ Len(s) >= Len(prefix)
    /\ SubSeq(s, 1, Len(prefix)) = prefix

valid_prefixes ==
    << <<"0", "1", "0">>, <<"0", "1", "1">>, <<"0", "1", "2">>, <<"0", "1", "5">> >>

\* the validator without its test of the length
is_valid_no_length_check(s) ==
    LET stripped == StripNonDigits(s)
    IN  \E k \in 1..Len(valid_prefixes) : StartsWith(stripped, valid_prefixes[k])

is_valid_egyptian_mobile(s) ==
    LET stripped == StripNonDigits(s)
    IN  IF Len(stripped) # PhoneLen
        THEN FALSE
        ELSE \E k \in 1..Len(valid_prefixes) : StartsWith(stripped, valid_prefixes[k])

\* re.findall(r'\d{11}', s) resumed at position p: the leftmost match at or
\* after p, then the scan goes on behind that match
RECURSIVE FindFrom(_, _)
FindFrom(s, p) ==
    IF p + PhoneLen - 1 > Len(s)
    THEN << >>
    ELSE IF \A k \in p..(p + PhoneLen - 1) : IsDigit(s[k])
         THEN << SubSeq(s, p, p + PhoneLen - 1) >> \o FindFrom(s, p + PhoneLen)
         ELSE FindFrom(s, p + 1)

\* the scan with a pattern that takes a run of exactly 11 digits only,
\* (?<!\d)\d{11}(?!\d)
RECURSIVE FindIsolatedFrom(_, _)
FindIsolatedFrom(s, p) ==
    IF p + PhoneLen - 1 > Len(s)
    THEN << >>
    ELSE IF /\ \A k \in p..(p + PhoneLen - 1) : IsDigit(s[k])
            /\ (p = 1 \/ ~IsDigit(s[p - 1]))
            /\ (p + PhoneLen > Len(s) \/ ~IsDigit(s[p + PhoneLen]))
         THEN << SubSeq(s, p, p + PhoneLen - 1) >> \o FindIsolatedFrom(s, p + PhoneLen)
         ELSE FindIsolatedFrom(s, p + 1)

FindAllIsolated(s) == FindIsolatedFrom(s, 1)

\* the scan with overlapping matches, (?=(\d{11}))
RECURSIVE FindOverlappingFrom(_, _)
FindOverlappingFrom(s, p) ==
    IF p + PhoneLen - 1 > Len(s)
    THEN << >>
    ELSE IF \A k \in p..(p + PhoneLen - 1) : IsDigit(s[k])
         THEN << SubSeq(s, p, p + PhoneLen - 1) >> \o FindOverlappingFrom(s, p + 1)
         ELSE FindOverlappingFrom(s, p + 1)

FindAllOverlapping(s) == FindOverlappingFrom(s, 1)

FindAll(s) == FindFrom(s, 1)

\* str(value) of a JSON string, of a JSON integer (chars holds its decimal
\* digits) or of null
Str(v) == IF v.kind = "null" THEN <<"N", "o", "n", "e">> ELSE v.chars


----------------------------------------------------------------------------
(* JSON values                                                             *)

NoValue == [kind |-> "null", chars |-> << >>]
StrValue(s) == [kind |-> "str", chars |-> s]
NumberValue(digits) == [kind |-> "number", chars |-> digits]

\* company['contact_info'] as an object holding 'phone', as an object
\* without it, as a number, and as a text in which 'phone' does not occur
ContactWithPhone(v) == [kind |-> "mapping", keys |-> {"phone"}, phone |-> v]
ContactWithoutPhone == [kind |-> "mapping", keys |-> {}, phone |-> NoValue]
ContactNumber == [kind |-> "number", keys |-> {}, phone |-> NoValue]
ContactText == [kind |-> "text", keys |-> {}, phone |-> NoValue]

Company(keys, id, name, contact) ==
    [keys |-> keys, id |-> id, company_name_arabic |-> name, contact_info |-> contact]

AllKeys == {"id", "company_name_arabic", "contact_info"}

\* the decoded file: an object with a 'companies' list, an object whose
\* 'companies' is a number, an object without 'companies', a top-level
\* array, a top-level number
CompaniesObject(items) ==
    [kind |-> "mapping", keys |-> {"companies"},
     companies |-> [kind |-> "list", items |-> items]]
CompaniesNotList ==
    [kind |-> "mapping", keys |-> {"companies"},
     companies |-> [kind |-> "number", items |-> << >>]]
EmptyObject ==
    [kind |-> "mapping", keys |-> {},
     companies |-> [kind |-> "number", items |-> << >>]]
TopLevelArray ==
    [kind |-> "array", keys |-> {},
     companies |-> [kind |-> "number", items |-> << >>]]
TopLevelNumber ==
    [kind |-> "number", keys |-> {},
     companies |-> [kind |-> "number", items |-> << >>]]

----------------------------------------------------------------------------
(* Inputs                                                                  *)

D010 == <<"0", "1", "0">>
D011 == <<"0", "1", "1">>
D012 == <<"0", "1", "2">>
D015 == <<"0", "1", "5">>
D099 == <<"0", "9", "9">>
Tail8 == <<"1", "2", "3", "4", "5", "6", "7", "8">>

\* the pieces generated phone strings are assembled from
Tokens == { D010, Tail8, <<"-">>, <<"U0663">> }

RECURSIVE TokenStrings(_)
TokenStrings(n) ==
    IF n = 0
    THEN { << >> }
    ELSE LET shorter == TokenStrings(n - 1)
         IN  shorter \cup { s \o t : s \in shorter, t \in Tokens }

\* records of the kinds the script meets: the scenario records (a valid
\* number, a wrong prefix, two numbers run together, no phone key), a record
\* with no key at all, contact_info that is a number or a text, a phone that
\* is null, a phone that is the JSON integer 201012345678, a number typed
\* with Arabic-Indic digits, and an unnamed record with two punctuated numbers
SampleCompanies ==
    { Company(AllKeys, "1", "Acme", ContactWithPhone(StrValue(D011 \o Tail8))),
      Company(AllKeys, "2", "Beta", ContactWithPhone(StrValue(D099 \o Tail8))),
      Company(AllKeys, "3", "Gamma",
              ContactWithPhone(StrValue(D010 \o Tail8 \o D011 \o Tail8))),
      Company(AllKeys, "4", "Delta", ContactWithoutPhone),
      Company({}, "", "", ContactWithoutPhone),
      Company(AllKeys, "6", "Zeta", ContactNumber),
      Company({"contact_info"}, "", "", ContactText),
      Company(AllKeys, "8", "Eta", ContactWithPhone(NoValue)),
      Company(AllKeys, "10", "Iota",
              ContactWithPhone(NumberValue(<<"2">> \o D010 \o Tail8))),
      Company(AllKeys, "9", "Theta",
              ContactWithPhone(StrValue(D010 \o [k \in 1..8 |-> "U0663"]))),
      Company({"contact_info"}, "", "",
              ContactWithPhone(StrValue(D012 \o <<"-">> \o Tail8 \o <<" ", "/", " ">>
                                        \o D015 \o Tail8))) }

RECURSIVE SeqsUpTo(_, _)
SeqsUpTo(S, n) ==
    IF n = 0
    THEN { << >> }
    ELSE LET shorter == SeqsUpTo(S, n - 1)
         IN  shorter \cup { Append(q, x) : q \in shorter, x \in S }

GeneratedCompanies ==
    { Company(AllKeys, "1", "Acme", ContactWithPhone(StrValue(s))) :
        s \in TokenStrings(MaxTokens) }

Inputs ==
    { EmptyObject, CompaniesNotList, TopLevelArray, TopLevelNumber }
    \cup { CompaniesObject(q) : q \in SeqsUpTo(SampleCompanies, MaxCompanies) }
    \cup { CompaniesObject(<< c >>) : c \in GeneratedCompanies }

\* strings for a direct call of the validator: every three-character
\* prefix over PrefixChars followed by digits, cut to each length up to
\* MaxLen, bare and with a dash after the first character
PrefixChars == {"0", "1", "2", "5", "9"}
DigitCycle == <<"1", "2", "3", "4", "5", "6", "7", "8", "9", "0">>
Body(n) == [k \in 1..n |-> DigitCycle[((k - 1) % Len(DigitCycle)) + 1]]

ValidatorInputs ==
    LET full == { <<a, b, c>> \o Body(MaxLen) : a \in PrefixChars, b \in PrefixChars,
                                                c \in PrefixChars }
        cut == { SubSeq(f, 1, n) : f \in full, n \in 0..MaxLen }
    IN  cut \cup { << s[1], "-" >> \o Tail(s) : s \in cut \ { << >> } }

----------------------------------------------------------------------------
(* extract_mobile_numbers                                                  *)

\* the test of the shape without isinstance
HasCompaniesKey(d) ==
    /\ d.kind = "mapping"
    /\ "companies" \in d.keys

\* 'companies' in data and isinstance(data['companies'], list), for a data
\* on which `in` is defined
HasCompaniesList(d) ==
    /\ d.kind = "mapping"
    /\ "companies" \in d.keys
    /\ d.companies.kind = "list"

\* the test without its second half: company['contact_info']['phone']
\* raises where there is no 'phone'
ProbeWithoutPhoneTest(company) ==
    IF "contact_info" \notin company.keys
    THEN "skip"
    ELSE IF company.contact_info.kind = "mapping" /\ "phone" \in company.contact_info.keys
         THEN "scan"
         ELSE "raise"

\* 'contact_info' in company and 'phone' in company['contact_info']:
\* "raise" when `in` is applied to a number, "scan" when both keys are there
Probe(company) ==
    IF "contact_info" \notin company.keys
    THEN "skip"
    ELSE IF company.contact_info.kind = "number"
         THEN "raise"
         ELSE IF company.contact_info.kind = "text"
              THEN "skip"
              ELSE IF "phone" \in company.contact_info.keys THEN "scan" ELSE "skip"

\* the name read once, from the first record, for the whole loop
NameOfFirst(company) ==
    IF "company_name_arabic" \in data.companies.items[1].keys
    THEN data.companies.items[1].company_name_arabic
    ELSE "unspecified"

\* company.get('company_name_arabic', <default>) and company.get('id', 'N/A')
NameOf(company) ==
    IF "company_name_arabic" \in company.keys
    THEN company.company_name_arabic
    ELSE "unspecified"

IdOf(company) == IF "id" \in company.keys THEN company.id ELSE "N/A"

ValidEntry(name, single_phone, company) ==
    [name |-> name, phone |-> single_phone, id |-> IdOf(company)]

InvalidEntry(name, single_phone) ==
    [name |-> name, phone |-> single_phone, reason |-> "invalid"]

\* list.insert(0, entry)
ListPrepend(list, entry) == << entry >> \o list

\* list.append
ListAppend(list, entry) == Append(list, entry)

Init ==
    /\ data \in Inputs
    /\ pc = "start"
    /\ i = 1
    /\ company_name = ""
    /\ phone_numbers = << >>
    /\ valid_numbers = << >>
    /\ invalid_numbers = << >>
    /\ result = << >>
    /\ phone = << >>
    /\ verdict = FALSE

\* the two empty lists and the test of the shape of data
CheckShape ==
    /\ pc = "start"
    /\ valid_numbers' = << >>
    /\ invalid_numbers' = << >>
    /\ i' = 1
    /\ pc' = IF data.kind = "number"
             THEN "raised"
             ELSE IF HasCompaniesList(data) THEN "loop" ELSE "report"
    /\ UNCHANGED <<data, company_name, phone_numbers, result, phone, verdict>>

\* one turn of `for company in data['companies']` up to re.findall
NextCompany ==
    /\ pc = "loop"
    /\ IF data.companies.kind # "list"
       THEN /\ pc' = "raised"
            /\ UNCHANGED <<i, company_name, phone_numbers>>
       ELSE IF i > Len(data.companies.items)
            THEN /\ pc' = "report"
                 /\ UNCHANGED <<i, company_name, phone_numbers>>
            ELSE LET company == data.companies.items[i]
                     probe == Probe(company)
                 IN  IF probe = "raise"
                     THEN /\ pc' = "raised"
                          /\ UNCHANGED <<i, company_name, phone_numbers>>
                     ELSE IF probe = "skip"
                          THEN /\ i' = i + 1
                               /\ UNCHANGED <<pc, company_name, phone_numbers>>
                          ELSE /\ company_name' = NameOf(company)
                               /\ phone_numbers' =
                                      FindAll(Str(company.contact_info.phone))
                               /\ pc' = "phones"
                               /\ UNCHANGED i
    /\ UNCHANGED <<data, valid_numbers, invalid_numbers, result, phone, verdict>>

\* one turn of `for single_phone in phone_numbers`
ProcessPhone ==
    /\ pc = "phones"
    /\ IF phone_numbers = << >>
       THEN /\ pc' = "loop"
            /\ i' = i + 1
            /\ UNCHANGED <<phone_numbers, valid_numbers, invalid_numbers>>
       ELSE LET single_phone == Head(phone_numbers)
                company == data.companies.items[i]
            IN  /\ IF is_valid_egyptian_mobile(single_phone)
                   THEN /\ valid_numbers' =
                              ListAppend(valid_numbers,
                                         ValidEntry(company_name, single_phone, company))
                        /\ UNCHANGED invalid_numbers
                   ELSE /\ invalid_numbers' =
                              ListAppend(invalid_numbers,
                                         InvalidEntry(company_name, single_phone))
                        /\ UNCHANGED valid_numbers
                /\ phone_numbers' = Tail(phone_numbers)
                /\ UNCHANGED <<pc, i>>
    /\ UNCHANGED <<data, company_name, result, phone, verdict>>

\* the listing of invalid_numbers and `return valid_numbers`
Report ==
    /\ pc = "report"
    /\ result' = valid_numbers
    /\ pc' = "done"
    /\ UNCHANGED <<data, i, company_name, phone_numbers, valid_numbers,
                   invalid_numbers, phone, verdict>>

\* a handler that returns what was collected before the error
HandlerReturnsPartial ==
    /\ pc = "raised"
    /\ result' = valid_numbers
    /\ pc' = "caught"
    /\ UNCHANGED <<data, i, company_name, phone_numbers, valid_numbers,
                   invalid_numbers, phone, verdict>>

\* except Exception: return []
Handler ==
    /\ pc = "raised"
    /\ result' = << >>
    /\ pc' = "caught"
    /\ UNCHANGED <<data, i, company_name, phone_numbers, valid_numbers,
                   invalid_numbers, phone, verdict>>

Next == CheckShape \/ NextCompany \/ ProcessPhone \/ Report \/ Handler

Spec == Init /\ [][Next]_vars

----------------------------------------------------------------------------
(* a direct call of is_valid_egyptian_mobile                               *)

InitValidator ==
    /\ data = EmptyObject
    /\ pc = "call"
    /\ i = 1
    /\ company_name = ""
    /\ phone_numbers = << >>
    /\ valid_numbers = << >>
    /\ invalid_numbers = << >>
    /\ result = << >>
    /\ phone \in ValidatorInputs
    /\ verdict = FALSE

Validate ==
    /\ pc = "call"
    /\ verdict' = is_valid_egyptian_mobile(phone)
    /\ pc' = "returned"
    /\ UNCHANGED <<data, i, company_name, phone_numbers, valid_numbers,
                   invalid_numbers, result, phone>>

SpecValidator == InitValidator /\ [][Validate]_vars

----------------------------------------------------------------------------
(* What the properties are stated with.  Nothing below is used by the       *)
(* actions, and nothing below uses FindAll, is_valid_egyptian_mobile,      *)
(* HasCompaniesList, Probe, NameOf, IdOf or ListAppend.                    *)

MobilePrefixes == { D010, D011, D012, D015 }

HasMobilePrefix(s) == Len(s) >= 3 /\ SubSeq(s, 1, 3) \in MobilePrefixes
LacksMobilePrefix(s) == ~HasMobilePrefix(s)

OnlyAsciiDigits(s) == \A k \in 1..Len(s) : s[k] \in AsciiDigits
OnlyDigits(s) == \A k \in 1..Len(s) : IsDigit(s[k])

\* the maximal runs of digits of s, from left to right
IsRunStart(s, p) == IsDigit(s[p]) /\ (p = 1 \/ ~IsDigit(s[p - 1]))

\* the last position of the run that p lies in
RECURSIVE RunEnd(_, _)
RunEnd(s, p) == IF p < Len(s) /\ IsDigit(s[p + 1]) THEN RunEnd(s, p + 1) ELSE p

RECURSIVE RunsFrom(_, _)
RunsFrom(s, p) ==
    IF p > Len(s)
    THEN << >>
    ELSE IF IsRunStart(s, p)
         THEN LET q == RunEnd(s, p)
              IN  << SubSeq(s, p, q) >> \o RunsFrom(s, q + 1)
         ELSE RunsFrom(s, p + 1)

MaximalRuns(s) == RunsFrom(s, 1)

\* the consecutive windows of PhoneLen characters of r, counted from its
\* left end; what is left over at the right end belongs to no window
Chunks(r) ==
    [j \in 1..(Len(r) \div PhoneLen) |->
        SubSeq(r, PhoneLen * (j - 1) + 1, PhoneLen * j)]

RECURSIVE Flatten(_)
Flatten(seqs) == IF seqs = << >> THEN << >> ELSE Head(seqs) \o Flatten(Tail(seqs))

\* the windows of every maximal run of s, and the runs of exactly PhoneLen
WindowsOf(s) ==
    LET runs == MaximalRuns(s)
    IN  Flatten([k \in 1..Len(runs) |-> Chunks(runs[k])])
IsolatedOf(s) == SelectSeq(MaximalRuns(s), LAMBDA r : Len(r) = PhoneLen)

HoldsPhone(c) ==
    /\ "contact_info" \in c.keys
    /\ c.contact_info.kind = "mapping"
    /\ "phone" \in c.contact_info.keys

ContactIsNumber(c) == "contact_info" \in c.keys /\ c.contact_info.kind = "number"

\* a record with no phone field: no contact_info, a contact_info without a
\* 'phone' (an object without the key, a text), or a 'phone' that is null
Phoneless(c) ==
    /\ ~ContactIsNumber(c)
    /\ (HoldsPhone(c) => c.contact_info.phone.kind = "null")

PhoneText(c) ==
    IF c.contact_info.phone.kind = "null"
    THEN <<"N", "o", "n", "e">>
    ELSE c.contact_info.phone.chars

RefName(c) ==
    IF "company_name_arabic" \in c.keys THEN c.company_name_arabic ELSE "unspecified"
RefId(c) == IF "id" \in c.keys THEN c.id ELSE "N/A"

\* the entries record c owes to the numbers nums, in their order
RefValidOf(c, nums) ==
    LET good == SelectSeq(nums, HasMobilePrefix)
    IN  [k \in 1..Len(good) |-> [name |-> RefName(c), phone |-> good[k], id |-> RefId(c)]]

RefInvalidOf(c, nums) ==
    LET bad == SelectSeq(nums, LacksMobilePrefix)
    IN  [k \in 1..Len(bad) |-> [name |-> RefName(c), phone |-> bad[k], reason |-> "invalid"]]

RefWindows(c) == IF HoldsPhone(c) THEN WindowsOf(PhoneText(c)) ELSE << >>
RefIsolated(c) == IF HoldsPhone(c) THEN IsolatedOf(PhoneText(c)) ELSE << >>

\* the two lists after the records of items were scanned without an error
RefValid(items) ==
    Flatten([k \in 1..Len(items) |-> RefValidOf(items[k], RefWindows(items[k]))])
RefInvalid(items) ==
    Flatten([k \in 1..Len(items) |-> RefInvalidOf(items[k], RefWindows(items[k]))])

SomeRaises(items) == \E k \in 1..Len(items) : ContactIsNumber(items[k])

\* the value returned for a file whose 'companies' list is items
RefReturn(items) == IF SomeRaises(items) THEN << >> ELSE RefValid(items)

HasRecordList ==
    data.kind = "mapping" /\ "companies" \in data.keys /\ data.companies.kind = "list"

Items == data.companies.items
Finished == pc \in {"done", "caught"}
Phones(list) == [k \in 1..Len(list) |-> list[k].phone]

----------------------------------------------------------------------------
(* The properties                                                          *)

Punctuation == {"-", " "}

\* one valid mobile number, written in 0-9, with punctuation between digits
PunctuatedMobile(s) ==
    LET d == SelectSeq(s, LAMBDA c : c \in AsciiDigits)
    IN  /\ Len(d) = PhoneLen
        /\ HasMobilePrefix(d)
        /\ \A k \in 1..Len(s) : s[k] \in AsciiDigits \cup Punctuation
        /\ s[1] \in AsciiDigits
        /\ s[Len(s)] \in AsciiDigits

SingleRecord ==
    /\ HasRecordList
    /\ Len(Items) = 1
    /\ HoldsPhone(Items[1])
    /\ Items[1].contact_info.phone.kind = "str"

\* C1: when the only record's phone is one valid 11-digit mobile number with
\* punctuation possibly between its digits, the extraction returns exactly
\* one valid entry, whose phone is the number without the punctuation.
C1_RoundTrip ==
    (pc = "done" /\ SingleRecord /\ PunctuatedMobile(PhoneText(Items[1])))
        => result = << [name |-> RefName(Items[1]),
                        phone |-> SelectSeq(PhoneText(Items[1]),
                                            LAMBDA c : c \in AsciiDigits),
                        id |-> RefId(Items[1])] >>

AllWindows == Flatten([k \in 1..Len(Items) |-> RefWindows(Items[k])])
AllIsolated == Flatten([k \in 1..Len(Items) |-> RefIsolated(Items[k])])

\* no phone string holds a digit other than 0-9
WrittenInAscii ==
    \A k \in 1..Len(Items) :
        HoldsPhone(Items[k])
            => \A j \in 1..Len(PhoneText(Items[k])) : PhoneText(Items[k])[j] # "U0663"

\* C2 as stated, for phone strings whose digits are all 0-9: the numbers in
\* the two lists are the maximal digit runs of length exactly 11; a shorter
\* or a longer run gives no entry.
C2_OnlyIsolatedRuns ==
    (pc \in {"report", "done"} /\ WrittenInAscii)
        => /\ Phones(valid_numbers) = SelectSeq(AllIsolated, HasMobilePrefix)
           /\ Phones(invalid_numbers) = SelectSeq(AllIsolated, LacksMobilePrefix)

\* C2 as amended: a maximal digit run of length L gives the L div 11
\* consecutive 11-digit windows counted from its left end, so a run shorter
\* than 11 gives no entry, and a longer run gives its leading windows.
C2_WindowsOfRuns ==
    pc \in {"report", "done"}
        => /\ Phones(valid_numbers) = SelectSeq(AllWindows, HasMobilePrefix)
           /\ Phones(invalid_numbers) = SelectSeq(AllWindows, LacksMobilePrefix)

C2_Witness ==
    /\ pc = "done"
    /\ SingleRecord
    /\ LET runs == MaximalRuns(PhoneText(Items[1]))
       IN  /\ \E k \in 1..Len(runs) :
                 Len(runs[k]) > PhoneLen /\ Len(runs[k]) % PhoneLen # 0
           /\ \E k \in 1..Len(runs) : Len(runs[k]) < PhoneLen
    /\ Len(valid_numbers) + Len(invalid_numbers) = 1

\* C3: on a string of digits 0-9 the validator answers true exactly when the
\* string has 11 digits and begins with 010, 011, 012 or 015.
C3_ValidatorIff ==
    (pc = "returned" /\ OnlyAsciiDigits(phone))
        => (verdict <=> (Len(phone) = PhoneLen /\ HasMobilePrefix(phone)))

C3_Witness ==
    /\ pc = "returned"
    /\ OnlyAsciiDigits(phone)
    /\ verdict
    /\ SubSeq(phone, 1, 3) = D015

\* C4: at every point of a run every phone of the valid list is 11 digits
\* 0-9 beginning with 010, 011, 012 or 015, and every phone of the invalid
\* list is 11 digits 0-9 beginning with none of them.
C4_ListsHoldAsciiNumbers ==
    /\ \A k \in 1..Len(valid_numbers) :
          /\ Len(valid_numbers[k].phone) = PhoneLen
          /\ OnlyAsciiDigits(valid_numbers[k].phone)
          /\ HasMobilePrefix(valid_numbers[k].phone)
    /\ \A k \in 1..Len(invalid_numbers) :
          /\ Len(invalid_numbers[k].phone) = PhoneLen
          /\ OnlyAsciiDigits(invalid_numbers[k].phone)
          /\ LacksMobilePrefix(invalid_numbers[k].phone)

\* an empty collection or one without the expected structure
LacksRecords == ~(HasRecordList /\ Items # << >>)

\* C5: for an empty collection or one without the expected structure the
\* run ends with a returned value, both lists and the returned value are
\* empty, and for an object (no record list, or a record list that is no
\* list) it ends by the ordinary return, not by the error handler.
C5_MalformedGivesEmpty ==
    /\ pc = "raised" => ENABLED Handler
    /\ (Finished /\ LacksRecords)
          => /\ valid_numbers = << >>
             /\ invalid_numbers = << >>
             /\ result = << >>
             /\ (data.kind = "mapping" => pc = "done")

C5_Witness == pc = "done" /\ data = CompaniesNotList /\ result = << >>

VisitedOf(c) ==
    IF pc = "phones"
    THEN SubSeq(RefWindows(c), 1, Len(RefWindows(c)) - Len(phone_numbers))
    ELSE << >>

ScanOrderKept ==
    (HasRecordList /\ pc # "start")
        => LET before == SubSeq(Items, 1, i - 1)
               visited == IF pc = "phones" THEN VisitedOf(Items[i]) ELSE << >>
               current == IF pc = "phones" THEN Items[i] ELSE Items[1]
           IN  /\ valid_numbers = RefValid(before) \o RefValidOf(current, visited)
               /\ invalid_numbers = RefInvalid(before) \o RefInvalidOf(current, visited)

AppendOnly(list) == list' = list \/ (Len(list') = Len(list) + 1
                                      /\ SubSeq(list', 1, Len(list)) = list)

\* C7: at every point each list holds, in scan order (earlier records first,
\* and within a record from left to right), the entries of what has been
\* scanned so far, and a step leaves a list as it is or appends one entry.
C7_ScanOrder ==
    /\ []ScanOrderKept
    /\ [][AppendOnly(valid_numbers) /\ AppendOnly(invalid_numbers)]_vars

C7_Witness ==
    /\ pc = "done"
    /\ Len(Items) = 2
    /\ Len(RefValid(<< Items[1] >>)) = 2
    /\ Len(RefValid(<< Items[2] >>)) = 1
    /\ Len(result) = 3

\* the only record's phone is k >= 1 numbers of 11 digits 0-9 run together
ConcatenatedNumbers ==
    /\ SingleRecord
    /\ OnlyAsciiDigits(PhoneText(Items[1]))
    /\ Len(PhoneText(Items[1])) >= PhoneLen
    /\ Len(PhoneText(Items[1])) % PhoneLen = 0

\* C8: for a phone that is k 11-digit numbers run together, after n entries
\* were produced they carry the first n of the k numbers in order, the
\* numbers still to visit are the remaining ones in order, and at the end
\* n = k.
C8_ConcatenatedNumbers ==
    (ConcatenatedNumbers /\ pc \in {"phones", "report", "done"})
        => LET numbers == Chunks(PhoneText(Items[1]))
               n == Len(valid_numbers) + Len(invalid_numbers)
           IN  /\ n <= Len(numbers)
               /\ Phones(valid_numbers) = SelectSeq(SubSeq(numbers, 1, n), HasMobilePrefix)
               /\ Phones(invalid_numbers)
                      = SelectSeq(SubSeq(numbers, 1, n), LacksMobilePrefix)
               /\ pc = "phones" => phone_numbers = SubSeq(numbers, n + 1, Len(numbers))
               /\ pc # "phones" => n = Len(numbers)

C8_Witness ==
    /\ ConcatenatedNumbers
    /\ pc = "done"
    /\ Len(PhoneText(Items[1])) = 2 * PhoneLen
    /\ Len(result) = 1
    /\ Len(invalid_numbers) = 1

Keep(items) == SelectSeq(items, LAMBDA c : ~Phoneless(c))

PhonelessIsSkipped ==
    (Finished /\ HasRecordList)
        => /\ result = RefReturn(Keep(Items))
           /\ pc = "done" => /\ valid_numbers = RefValid(Keep(Items))
                             /\ invalid_numbers = RefInvalid(Keep(Items))

PhonelessStep ==
    (HasRecordList /\ pc \in {"loop", "phones"} /\ i <= Len(Items)
        /\ Phoneless(Items[i]))
        => /\ valid_numbers' = valid_numbers
           /\ invalid_numbers' = invalid_numbers
           /\ pc' \in {"loop", "phones"}

C10_RaiseDiscardsAll ==
    (Finished /\ HasRecordList /\ SomeRaises(Items))
        => pc = "caught" /\ result = << >>

C10_Witness == pc = "caught" /\ valid_numbers # << >> /\ result = << >>
=============================================================================
